---- MODULE Spec2Model ----
(***************************************************************************)
(* Model of mssql_mcp_server/utils.py: the table-name validator            *)
(* (validate_table_name) and the configuration resolver (get_db_config).   *)
(*                                                                         *)
(* Python strings are sequences of one-character strings, so that          *)
(* matching, splitting, prefix tests, replacement, case folding and        *)
(* integer parsing are computed character by character as the code does.   *)
(* Python values of differing type are tagged records (PyNone, PyStr,      *)
(* PyInt, PyBool); a dict is a function whose domain is its key set.       *)
(***************************************************************************)
EXTENDS Integers, Sequences, FiniteSets, TLC

VARIABLES
    table_name,   \* the argument handed to validate_table_name
    validated,    \* the outcome of validate_table_name (NotCalled before)
    env,          \* the process environment read by os.getenv
    calls         \* one entry per finished get_db_config call:
                  \* the environment it ran in, its outcome, its log records

vars == <<table_name, validated, env, calls>>

----------------------------------------------------------------------------
(* Bounds of the model *)

\* longest table name handed to the validator
MaxLen == 5

\* most get_db_config calls in one behaviour
MaxCalls == 2

\* most pieces a MSSQL_SERVER value is assembled from
MaxServerParts == 2

----------------------------------------------------------------------------
(* Python values *)

PyNone == [type |-> "NoneType"]

PyStr(s) == [type |-> "str", str |-> s]

PyInt(n) == [type |-> "int", int |-> n]

PyBool(b) == [type |-> "bool", bool |-> b]

\* bool(v) of Python for the values that occur here
Truthy(v) ==
    CASE v.type = "NoneType" -> FALSE
      [] v.type = "str" -> v.str # <<>>
      [] v.type = "int" -> v.int # 0
      [] v.type = "bool" -> v.bool

NotCalled == [kind |-> "not_called"]

Return(v) == [kind |-> "return", value |-> v]

\* raise ValueError(f"...") : the exception type, the f-string's literal
\* template and the text substituted into it
Raise(fmt, args) == [kind |-> "raise", exc |-> "ValueError", fmt |-> fmt, args |-> args]

----------------------------------------------------------------------------
(* validate_table_name *)

LowerLetters ==
    {"a","b","c","d","e","f","g","h","i","j","k","l","m",
     "n","o","p","q","r","s","t","u","v","w","x","y","z"}

UpperLetters ==
    {"A","B","C","D","E","F","G","H","I","J","K","L","M",
     "N","O","P","Q","R","S","T","U","V","W","X","Y","Z"}

Digits == {"0","1","2","3","4","5","6","7","8","9"}

\* the character class [a-zA-Z0-9_]
WordChars == LowerLetters \cup UpperLetters \cup Digits \cup {"_"}

\* [a-zA-Z0-9_]+ against the whole of s
IsWord(s) == Len(s) >= 1 /\ \A i \in 1..Len(s) : s[i] \in WordChars

\* [a-zA-Z0-9_]+(\.[a-zA-Z0-9_]+)? against the whole of s
MatchesBody(s) ==
    \/ IsWord(s)
    \/ \E k \in 1..Len(s) :
          /\ s[k] = "."
          /\ IsWord(SubSeq(s, 1, k - 1))
          /\ IsWord(SubSeq(s, k + 1, Len(s)))

\* where Python's $ (no MULTILINE flag) matches: at the end of the string,
\* and just before a newline that is the string's last character
DollarPositions(s) ==
    {Len(s)} \cup (IF Len(s) >= 1 /\ s[Len(s)] = "\n" THEN {Len(s) - 1} ELSE {})

\* re.match(r'^[a-zA-Z0-9_]+(\.[a-zA-Z0-9_]+)?$', s) is not None
RegexMatch(s) == \E e \in DollarPositions(s) : MatchesBody(SubSeq(s, 1, e))

\* index of the first occurrence of character c in s, 0 when there is none
FindChar(s, c) ==
    IF \E i \in 1..Len(s) : s[i] = c
    THEN CHOOSE i \in 1..Len(s) : s[i] = c /\ \A j \in 1..(i - 1) : s[j] # c
    ELSE 0

\* s.split(c) of Python for a one-character separator
RECURSIVE Split(_, _)
Split(s, c) ==
    LET k == FindChar(s, c)
    IN  IF k = 0 THEN <<s>>
        ELSE <<SubSeq(s, 1, k - 1)>> \o Split(SubSeq(s, k + 1, Len(s)), c)

\* a mutant of Bracket: the closing bracket is forgotten
BracketOpenOnly(p) == <<"[">> \o p

\* f"[{p}]"
Bracket(p) == <<"[">> \o p \o <<"]">>

validate_table_name(name) ==
    IF ~RegexMatch(name)
    THEN Raise("Invalid table name: {}", <<name>>)
    ELSE LET parts == Split(name, ".")
         IN  IF Len(parts) = 2
             THEN Return(Bracket(parts[1]) \o <<".">> \o Bracket(parts[2]))
             ELSE Return(Bracket(name))

----------------------------------------------------------------------------
(* Inputs of the validator *)

\* characters table names are drawn from: one of each accepted class, the
\* dot, and characters outside the class
Alphabet == {"a", "Z", "0", "_", ".", " ", ";", "]", "\n"}

TableNames == UNION {[1..n -> Alphabet] : n \in 0..MaxLen}

\* the call of validate_table_name
ValidateCall ==
    /\ validated = NotCalled
    /\ validated' = validate_table_name(table_name)
    /\ UNCHANGED <<table_name, env, calls>>

----------------------------------------------------------------------------
(* Strings used by get_db_config *)

\* "(localdb)\\"
LocalDbPrefix == <<"(", "l", "o", "c", "a", "l", "d", "b", ")", "\\">>

\* ".database.windows.net"
AzureSuffix ==
    <<".", "d", "a", "t", "a", "b", "a", "s", "e", ".", "w", "i", "n", "d",
      "o", "w", "s", ".", "n", "e", "t">>

S_localhost == <<"l", "o", "c", "a", "l", "h", "o", "s", "t">>

S_true == <<"t", "r", "u", "e">>

S_false == <<"f", "a", "l", "s", "e">>

S_True == <<"T", "r", "u", "e">>

S_False == <<"F", "a", "l", "s", "e">>

S_None == <<"N", "o", "n", "e">>

S_NOT_SET == <<"N", "O", "T", " ", "S", "E", "T">>

S_SET == <<"S", "E", "T">>

S_stars == <<"*", "*", "*">>

S_1433 == <<"1", "4", "3", "3">>

S_7_4 == <<"7", ".", "4">>

\* s.startswith(p)
StartsWith(s, p) == Len(s) >= Len(p) /\ SubSeq(s, 1, Len(p)) = p

\* whether p occurs in s at index i
OccursAt(s, p, i) == i >= 1 /\ i + Len(p) - 1 <= Len(s) /\ SubSeq(s, i, i + Len(p) - 1) = p

\* p in s
Contains(s, p) == \E i \in 1..(Len(s) + 1) : OccursAt(s, p, i)

\* s.replace(old, new) for a non-empty old: every occurrence, found left
\* to right without overlap
RECURSIVE Replace(_, _, _)
Replace(s, old, new) ==
    IF s = <<>> THEN <<>>
    ELSE IF OccursAt(s, old, 1)
         THEN new \o Replace(SubSeq(s, Len(old) + 1, Len(s)), old, new)
         ELSE <<s[1]>> \o Replace(SubSeq(s, 2, Len(s)), old, new)

\* c.lower() for one character
LowerChar(c) ==
    CASE c = "A" -> "a" [] c = "B" -> "b" [] c = "C" -> "c" [] c = "D" -> "d"
      [] c = "E" -> "e" [] c = "F" -> "f" [] c = "G" -> "g" [] c = "H" -> "h"
      [] c = "I" -> "i" [] c = "J" -> "j" [] c = "K" -> "k" [] c = "L" -> "l"
      [] c = "M" -> "m" [] c = "N" -> "n" [] c = "O" -> "o" [] c = "P" -> "p"
      [] c = "Q" -> "q" [] c = "R" -> "r" [] c = "S" -> "s" [] c = "T" -> "t"
      [] c = "U" -> "u" [] c = "V" -> "v" [] c = "W" -> "w" [] c = "X" -> "x"
      [] c = "Y" -> "y" [] c = "Z" -> "z" [] OTHER -> c

\* s.lower()
Lower(s) == [i \in 1..Len(s) |-> LowerChar(s[i])]

\* the text an f-string substitutes for {v}
Format(v) ==
    CASE v.type = "NoneType" -> S_None
      [] v.type = "str" -> v.str
      [] v.type = "bool" -> IF v.bool THEN S_True ELSE S_False

----------------------------------------------------------------------------
(* int(text) *)

\* the ASCII characters str.strip() and int() treat as whitespace
Whitespace == {" ", "\t", "\n", "\r", "\f"}

\* s without its leading whitespace
RECURSIVE LStrip(_)
LStrip(s) == IF s # <<>> /\ s[1] \in Whitespace THEN LStrip(SubSeq(s, 2, Len(s))) ELSE s

\* s without its trailing whitespace
RECURSIVE RStrip(_)
RStrip(s) ==
    IF s # <<>> /\ s[Len(s)] \in Whitespace THEN RStrip(SubSeq(s, 1, Len(s) - 1)) ELSE s

DigitValue(c) ==
    CASE c = "0" -> 0 [] c = "1" -> 1 [] c = "2" -> 2 [] c = "3" -> 3
      [] c = "4" -> 4 [] c = "5" -> 5 [] c = "6" -> 6 [] c = "7" -> 7
      [] c = "8" -> 8 [] c = "9" -> 9

\* a decimal literal as int() accepts it: digits, with single underscores
\* allowed between two digits
IsDecimalBody(s) ==
    /\ s # <<>>
    /\ \A i \in 1..Len(s) : s[i] \in Digits \cup {"_"}
    /\ s[1] # "_" /\ s[Len(s)] # "_"
    /\ \A i \in 1..(Len(s) - 1) : ~(s[i] = "_" /\ s[i + 1] = "_")

\* the value of a decimal body, underscores skipped
RECURSIVE DecimalValue(_)
DecimalValue(s) ==
    IF s = <<>> THEN 0
    ELSE LET init == SubSeq(s, 1, Len(s) - 1)
             last == s[Len(s)]
         IN  IF last = "_" THEN DecimalValue(init)
             ELSE 10 * DecimalValue(init) + DigitValue(last)

\* int(s): [ok |-> TRUE, val |-> n], or [ok |-> FALSE] for ValueError
ParseInt(s) ==
    LET t == RStrip(LStrip(s))
        signed == t # <<>> /\ t[1] \in {"+", "-"}
        body == IF signed THEN SubSeq(t, 2, Len(t)) ELSE t
    IN  IF IsDecimalBody(body)
        THEN [ok |-> TRUE,
              val |-> IF signed /\ t[1] = "-" THEN 0 - DecimalValue(body)
                      ELSE DecimalValue(body)]
        ELSE [ok |-> FALSE]

----------------------------------------------------------------------------
(* get_db_config *)

EnvNames ==
    {"MSSQL_SERVER", "MSSQL_USER", "MSSQL_PASSWORD", "MSSQL_DATABASE",
     "MSSQL_PORT", "MSSQL_ENCRYPT", "MSSQL_WINDOWS_AUTH"}

\* os.getenv(name): None when the variable is unset
getenv(e, name) == e[name]

\* os.getenv(name, default)
getenv_or(e, name, default) == IF e[name] = PyNone THEN PyStr(default) ELSE e[name]

\* logger.<level>(f"<fmt>"): the level, the f-string's literal template and
\* the texts substituted into it
Log(level, fmt, args) == [level |-> level, fmt |-> fmt, args |-> args]
\* a mutant of Pop: the key is read with d.get(key) and stays in the dict
PopKeepsKey(d, key) == d

\* d.pop(key, None) as it leaves the dict
Pop(d, key) == [k \in (DOMAIN d) \ {key} |-> d[k]]

\* d[key] = value for a key that may be new
Put(d, key, value) == [k \in (DOMAIN d) \cup {key} |-> IF k = key THEN value ELSE d[k]]

\* the LocalDB rewrite of the server string
RewriteLocalDb(server) ==
    IF StartsWith(server, LocalDbPrefix)
    THEN <<".", "\\">> \o Replace(server, LocalDbPrefix, <<>>)
    ELSE server

\* the server the record is built with
ResolveServer(e) == RewriteLocalDb(getenv_or(e, "MSSQL_SERVER", S_localhost).str)

\* the records logged while the server is resolved
ServerLog(e) ==
    LET server == getenv_or(e, "MSSQL_SERVER", S_localhost).str
    IN  <<Log("info", "MSSQL_SERVER environment variable: {}",
              <<getenv_or(e, "MSSQL_SERVER", S_NOT_SET).str>>),
          Log("info", "Using server: {}", <<server>>)>>
        \o (IF StartsWith(server, LocalDbPrefix)
            THEN <<Log("info", "Detected LocalDB connection, converted to: {}",
                       <<RewriteLocalDb(server)>>)>>
            ELSE <<>>)

\* the dict literal
BaseConfig(e) ==
    [server |-> PyStr(ResolveServer(e)),
     user |-> getenv(e, "MSSQL_USER"),
     password |-> getenv(e, "MSSQL_PASSWORD"),
     database |-> getenv(e, "MSSQL_DATABASE"),
     port |-> getenv_or(e, "MSSQL_PORT", S_1433)]
\* a mutant of DebugLog: the password is logged like the user and database
DebugLogLeaksPassword(config) ==
    <<Log("info", "MSSQL_USER: {}", <<Format(config.user)>>),
      Log("info", "MSSQL_DATABASE: {}", <<Format(config.database)>>),
      Log("info", "MSSQL_PASSWORD: {}", <<Format(config.password)>>)>>

\* the "Debug logging" records
DebugLog(config) ==
    <<Log("info", "MSSQL_USER: {}", <<Format(config.user)>>),
      Log("info", "MSSQL_DATABASE: {}", <<Format(config.database)>>),
      Log("info", "MSSQL_PASSWORD: {}",
          <<IF Truthy(config.password) THEN S_SET ELSE S_NOT_SET>>)>>

\* the port override: config["port"] = int(port) unless int raises
WithPort(config, e) ==
    LET port == getenv(e, "MSSQL_PORT")
    IN  IF Truthy(port) /\ ParseInt(port.str).ok
        THEN Put(config, "port", PyInt(ParseInt(port.str).val))
        ELSE config

\* the warning of the except branch
PortLog(e) ==
    LET port == getenv(e, "MSSQL_PORT")
    IN  IF Truthy(port) /\ ~ParseInt(port.str).ok
        THEN <<Log("warning", "Invalid MSSQL_PORT value: {}. Using default port.",
                   <<port.str>>)>>
        ELSE <<>>

\* the encryption settings
WithEncrypt(config, e) ==
    IF Truthy(config.server) /\ Contains(config.server.str, AzureSuffix)
    THEN LET azure == Put(config, "tds_version", PyStr(S_7_4))
         IN  IF Lower(getenv_or(e, "MSSQL_ENCRYPT", S_true).str) = S_true
             THEN Put(azure, "encrypt", PyBool(TRUE))
             ELSE azure
    ELSE Put(config, "encrypt",
             PyBool(Lower(getenv_or(e, "MSSQL_ENCRYPT", S_false).str) = S_true))
\* a mutant of use_windows_auth: the flag compared without .lower()
use_windows_auth_exact(e) == getenv_or(e, "MSSQL_WINDOWS_AUTH", S_false).str = S_true

use_windows_auth(e) == Lower(getenv_or(e, "MSSQL_WINDOWS_AUTH", S_false).str) = S_true

\* all([config["user"], config["password"], config["database"]])
AllRequired(config) ==
    Truthy(config.user) /\ Truthy(config.password) /\ Truthy(config.database)

MissingError == Raise("Missing required database configuration", <<>>)

\* the authentication branch: what the call returns or raises
AuthOutcome(config, e) ==
    IF use_windows_auth(e)
    THEN IF ~Truthy(config.database)
         THEN MissingError
         ELSE Return(Pop(Pop(config, "user"), "password"))
    ELSE IF ~AllRequired(config)
         THEN MissingError
         ELSE Return(config)

\* a mutant of CheckingRecord: password= repeats the user's presence
CheckingRecordCopyPaste(config) ==
    Log("info", "Checking required vars: user={}, password={}, database={}",
        <<Format(PyBool(Truthy(config.user))),
          Format(PyBool(Truthy(config.user))),
          Format(PyBool(Truthy(config.database)))>>)

\* the "Checking required vars" record: bool() of each required value
CheckingRecord(config) ==
    Log("info", "Checking required vars: user={}, password={}, database={}",
        <<Format(PyBool(Truthy(config.user))),
          Format(PyBool(Truthy(config.password))),
          Format(PyBool(Truthy(config.database)))>>)

\* the records logged by the authentication branch
AuthLog(config, e) ==
    IF use_windows_auth(e)
    THEN IF ~Truthy(config.database)
         THEN <<Log("error", "MSSQL_DATABASE is required", <<>>)>>
         ELSE <<Log("info", "Using Windows Authentication", <<>>)>>
    ELSE <<CheckingRecord(config)>>
         \o (IF ~AllRequired(config)
             THEN <<Log("error",
                        "Missing required database configuration. Please check environment variables:",
                        <<>>),
                    Log("error",
                        "MSSQL_USER, MSSQL_PASSWORD, and MSSQL_DATABASE are required",
                        <<>>),
                    Log("error", "Current values: USER={}, DATABASE={}, PASSWORD={}",
                        <<Format(config.user), Format(config.database),
                          IF Truthy(config.password) THEN S_stars ELSE S_None>>)>>
             ELSE <<>>)

\* one run of get_db_config in environment e: its outcome and the log
\* records it emits, in order
get_db_config(e) ==
    LET base == BaseConfig(e)
        config == WithEncrypt(WithPort(base, e), e)
    IN  [outcome |-> AuthOutcome(config, e),
         log |-> ServerLog(e) \o DebugLog(base) \o PortLog(e) \o AuthLog(config, e)]
\* a mutant of GetDbConfigCall: the first resolved outcome is kept in a
\* module-level cache and handed out again by later calls
GetDbConfigCallCached ==
    /\ Len(calls) < MaxCalls
    /\ LET r == get_db_config(env)
           o == IF calls = <<>> THEN r.outcome ELSE calls[1].outcome
       IN  calls' = Append(calls, [env |-> env, outcome |-> o, log |-> r.log])
    /\ UNCHANGED <<table_name, validated, env>>

\* a call of get_db_config: the environment is read, never written; the
\* outcome and the log records are recorded with the environment of the call
GetDbConfigCall ==
    /\ Len(calls) < MaxCalls
    /\ LET r == get_db_config(env)
       IN  calls' = Append(calls, [env |-> env, outcome |-> r.outcome, log |-> r.log])
    /\ UNCHANGED <<table_name, validated, env>>

\* os.environ[name] = value, or del os.environ[name] for value None, done
\* by the process between calls
SetEnv(name, value) ==
    /\ env[name] # value
    /\ env' = [env EXCEPT ![name] = value]
    /\ UNCHANGED <<table_name, validated, calls>>

----------------------------------------------------------------------------
(* Environments *)

\* a host name that is neither a LocalDB instance nor an Azure SQL server
HostName == <<"d", "b">>

ServerPieces == {LocalDbPrefix, AzureSuffix, HostName}

\* the strings assembled from at most n pieces
RECURSIVE ServerStrings(_)
ServerStrings(n) ==
    IF n = 0 THEN {<<>>}
    ELSE LET shorter == ServerStrings(n - 1)
         IN  shorter \cup {s \o p : s \in shorter, p \in ServerPieces}

\* a variable is unset (None) or set to one of the texts
Settings(texts) == {PyNone} \cup {PyStr(t) : t \in texts}

\* texts of MSSQL_PORT: empty, plain integers, an integer written with
\* whitespace, sign and underscore, a negative one, and texts int() rejects
PortTexts ==
    {<<>>, S_1433, <<"8", "0">>, <<" ", "+", "8", "_", "0", "\n">>, <<"-", "1">>,
     <<"8", "_", "_", "0">>, <<"n", "a", "n">>}

\* texts of the two flags, in several spellings
FlagTexts == {<<>>, S_true, S_True, <<"T", "R", "U", "E">>, S_false}

\* every environment get_db_config is run in
Envs ==
    [MSSQL_SERVER : Settings(ServerStrings(MaxServerParts)),
     MSSQL_USER : Settings({<<>>, <<"u">>}),
     MSSQL_PASSWORD : Settings({<<>>, <<"p">>, <<"q">>}),
     MSSQL_DATABASE : Settings({<<>>, <<"d">>}),
     MSSQL_PORT : Settings(PortTexts),
     MSSQL_ENCRYPT : Settings(FlagTexts \ {S_True}),
     MSSQL_WINDOWS_AUTH : Settings(FlagTexts \ {<<>>, S_True})]

\* the values the process sets a variable to between calls
Assignable ==
    [MSSQL_SERVER |-> {PyNone},
     MSSQL_USER |-> Settings({<<"u">>}),
     MSSQL_PASSWORD |-> Settings({<<"p">>}),
     MSSQL_DATABASE |-> Settings({<<"d">>}),
     MSSQL_PORT |-> {PyNone},
     MSSQL_ENCRYPT |-> {PyNone},
     MSSQL_WINDOWS_AUTH |-> Settings({S_true})]

----------------------------------------------------------------------------
(* Specifications *)

\* validate_table_name applied to every table name
InitValidate ==
    /\ table_name \in TableNames
    /\ validated = NotCalled
    /\ env = [n \in EnvNames |-> PyNone]
    /\ calls = <<>>

NextValidate == ValidateCall

SpecValidate == InitValidate /\ [][NextValidate]_vars

\* get_db_config applied once in every environment
InitConfig ==
    /\ table_name = <<>>
    /\ validated = NotCalled
    /\ env \in Envs
    /\ calls = <<>>

ResolveOnce == calls = <<>> /\ GetDbConfigCall

SpecConfig == InitConfig /\ [][ResolveOnce]_vars

\* calls of get_db_config interleaved with changes of the environment
Init ==
    /\ table_name = <<>>
    /\ validated = NotCalled
    /\ env \in {e \in [EnvNames -> UNION {Assignable[n] : n \in EnvNames}] :
                  \A n \in EnvNames : e[n] \in Assignable[n]}
    /\ calls = <<>>

ChangeEnv == \E name \in EnvNames : \E value \in Assignable[name] : SetEnv(name, value)

Next == GetDbConfigCall \/ ChangeEnv

Spec == Init /\ [][Next]_vars

----------------------------------------------------------------------------
(* Vocabulary of the properties *)

\* the port get_db_config is documented to fall back to
DefaultPortNumber == 1433

\* a variable is unset or empty
Missing(e, name) == e[name] = PyNone \/ e[name] = PyStr(<<>>)

\* a variable is set to "true", in any letter case
SetToTrue(e, name) == e[name] # PyNone /\ Lower(e[name].str) = S_true

\* the required fields that are unset or empty in e
MissingFields(e) ==
    {n \in {"MSSQL_USER", "MSSQL_PASSWORD", "MSSQL_DATABASE"} : Missing(e, n)}

\* one part, or two parts separated by a dot, each one or more of the
\* ASCII letters, digits and underscore
WellFormedName(s) ==
    LET parts == Split(s, ".")
    IN  Len(parts) \in {1, 2} /\ \A i \in 1..Len(parts) : IsWord(parts[i])

Finished == {i \in DOMAIN calls : TRUE}

Succeeded == {i \in DOMAIN calls : calls[i].outcome.kind = "return"}

Failed == {i \in DOMAIN calls : calls[i].outcome.kind = "raise"}

----------------------------------------------------------------------------
(* Properties of validate_table_name, under SpecValidate *)

\* C1: every table name that is not one word or two words joined by a dot
\* is rejected with an error and nothing is returned for it.
C1_RejectsMalformed ==
    (validated # NotCalled /\ ~WellFormedName(table_name)) => validated.kind = "raise"

\* C2: a single word s is returned as "[s]" and "a.b" of two words as
\* "[a].[b]", the characters carried over unchanged and in order.
C2_EscapesWellFormed ==
    validated # NotCalled =>
        /\ IsWord(table_name) =>
              validated = Return(<<"[">> \o table_name \o <<"]">>)
        /\ \A k \in 1..Len(table_name) :
              LET a == SubSeq(table_name, 1, k - 1)
                  b == SubSeq(table_name, k + 1, Len(table_name))
              IN  (table_name[k] = "." /\ IsWord(a) /\ IsWord(b)) =>
                      validated = Return(<<"[">> \o a \o <<"]", ".", "[">> \o b \o <<"]">>)

\* a two-part name has been validated and a value returned for it
C2_Witness ==
    /\ validated # NotCalled
    /\ validated.kind = "return"
    /\ \E k \in 2..(Len(table_name) - 1) :
          /\ table_name[k] = "."
          /\ IsWord(SubSeq(table_name, 1, k - 1))
          /\ IsWord(SubSeq(table_name, k + 1, Len(table_name)))

----------------------------------------------------------------------------
(* Properties of one get_db_config call, under SpecConfig *)

\* C3: resolution fails exactly when integrated authentication is selected
\* and the database is missing, or it is not selected and one of user,
\* password, database is missing; in every other environment it returns.
C3_FailsExactlyWhenRequiredMissing ==
    \A i \in Finished :
        LET e == calls[i].env
            integrated == SetToTrue(e, "MSSQL_WINDOWS_AUTH")
            mustFail == \/ integrated /\ Missing(e, "MSSQL_DATABASE")
                        \/ ~integrated /\ MissingFields(e) # {}
        IN  /\ mustFail <=> calls[i].outcome.kind = "raise"
            /\ ~mustFail <=> calls[i].outcome.kind = "return"

\* a call succeeded although the port text is no integer, the encrypt flag
\* is empty and the server is set to the empty string
C3_Witness ==
    \E i \in Succeeded :
        /\ calls[i].env["MSSQL_PORT"] = PyStr(<<"n", "a", "n">>)
        /\ calls[i].env["MSSQL_ENCRYPT"] = PyStr(<<>>)
        /\ calls[i].env["MSSQL_SERVER"] = PyStr(<<>>)
        /\ SetToTrue(calls[i].env, "MSSQL_WINDOWS_AUTH")
        /\ calls[i].env["MSSQL_WINDOWS_AUTH"] # PyStr(S_true)

\* C4: every returned record has a boolean encrypt: for an Azure SQL server
\* true unless MSSQL_ENCRYPT disables it (then false), for every other
\* server true exactly when MSSQL_ENCRYPT is "true" in any letter case.
C4_EncryptAlwaysPresent ==
    \A i \in Succeeded :
        LET e == calls[i].env
            c == calls[i].outcome.value
            disabled == e["MSSQL_ENCRYPT"] # PyNone /\ ~SetToTrue(e, "MSSQL_ENCRYPT")
        IN  /\ "encrypt" \in DOMAIN c
            /\ c.encrypt = PyBool(IF Contains(c.server.str, AzureSuffix)
                                  THEN ~disabled
                                  ELSE SetToTrue(e, "MSSQL_ENCRYPT"))

\* C5: the port of every returned record is an integer: the one parsed from
\* MSSQL_PORT when it parses, 1433 when it is unset, empty or does not parse.
C5_PortIsInteger ==
    \A i \in Succeeded :
        LET e == calls[i].env
            c == calls[i].outcome.value
            parses == ~Missing(e, "MSSQL_PORT") /\ ParseInt(e["MSSQL_PORT"].str).ok
        IN  c.port = PyInt(IF parses THEN ParseInt(e["MSSQL_PORT"].str).val
                           ELSE DefaultPortNumber)

\* C6: a record returned under integrated authentication has no user and
\* no password key, whatever MSSQL_USER and MSSQL_PASSWORD are; a record
\* returned under SQL authentication has non-empty user, password, database.
C6_CredentialKeysFollowAuthMode ==
    \A i \in Succeeded :
        LET e == calls[i].env
            c == calls[i].outcome.value
        IN  IF SetToTrue(e, "MSSQL_WINDOWS_AUTH")
            THEN "user" \notin DOMAIN c /\ "password" \notin DOMAIN c
            ELSE /\ {"user", "password", "database"} \subseteq DOMAIN c
                 /\ \A k \in {"user", "password", "database"} :
                       c[k].type = "str" /\ c[k].str # <<>>

\* a call succeeded under integrated authentication with MSSQL_USER and
\* MSSQL_PASSWORD both set to non-empty values
C6_Witness ==
    \E i \in Succeeded :
        /\ SetToTrue(calls[i].env, "MSSQL_WINDOWS_AUTH")
        /\ ~Missing(calls[i].env, "MSSQL_USER")
        /\ ~Missing(calls[i].env, "MSSQL_PASSWORD")

\* C7: a MSSQL_SERVER that begins with "(localdb)\" resolves to ".\" and
\* the rest after that one leading prefix, later occurrences kept; any
\* other MSSQL_SERVER resolves to itself, and an unset one to "localhost".
C7_OnlyLeadingPrefixStripped ==
    \A i \in Succeeded :
        LET given == calls[i].env["MSSQL_SERVER"]
            resolved == calls[i].outcome.value.server
        IN  resolved =
              IF given = PyNone THEN PyStr(S_localhost)
              ELSE IF StartsWith(given.str, LocalDbPrefix)
                   THEN PyStr(<<".", "\\">>
                              \o SubSeq(given.str, Len(LocalDbPrefix) + 1, Len(given.str)))
                   ELSE given

\* C9: no log record of a call depends on which non-empty password is set:
\* the call's records are those of the same environment with any other
\* non-empty password.
C9_LogIndependentOfPassword ==
    \A i \in Finished :
        ~Missing(calls[i].env, "MSSQL_PASSWORD") =>
            \A p \in {<<"p">>, <<"q">>} :
                get_db_config([calls[i].env EXCEPT !["MSSQL_PASSWORD"] = PyStr(p)]).log
                    = calls[i].log

\* calls with a non-empty password have finished, one that returned and
\* one that failed
C9_Witness ==
    \E i \in Finished :
        /\ calls[i].env["MSSQL_PASSWORD"] = PyStr(<<"q">>)
        /\ calls[i].outcome.kind = "raise"
        /\ Len(calls[i].log) >= 6

----------------------------------------------------------------------------
(* Properties of call sequences, under Spec *)

====
